---- MODULE Spec2Model ----
(***************************************************************************)
(* A model of the price service of src/main.rs: one Option<u64> cell       *)
(* behind a tokio RwLock, served by three axum handlers on /price.         *)
(*                                                                         *)
(* A u64 is kept as NumLimbs limbs of U64Bits / NumLimbs bits each, most   *)
(* significant limb first, so that the full 64-bit range is represented    *)
(* and the conversions between the decimal text of a request or response   *)
(* and the stored integer are computed digit by digit.                     *)
(***************************************************************************)
EXTENDS Integers, Sequences, FiniteSets

\* ------------------------------------------------------------------ bounds

\* Number of request slots: requests that can be in flight at the same time.
NumReq == 3

\* Number of slots in use where recurrence is checked.
NumLive == 2

\* ------------------------------------------------------- u64 and its text

U64Bits == 64
NumLimbs == 4
LimbBase == 2 ^ (U64Bits \div NumLimbs)

\* The u64 value zero.
Zero == [i \in 1 .. NumLimbs |-> 0]

\* limbs * 10 + d, least significant limb first; the result is
\* <<limbs', carry out of the most significant limb>>. (Here and below a
\* value used more than once in a round is bound by a one-element set, so
\* that the round is computed once.)
RECURSIVE MulAdd10From(_, _, _)
MulAdd10From(limbs, i, carry) ==
    IF i = 0
    THEN <<limbs, carry>>
    ELSE CHOOSE t \in {MulAdd10From([limbs EXCEPT ![i] = cur % LimbBase], i - 1,
                                      cur \div LimbBase) :
                        cur \in {limbs[i] * 10 + carry}} :
            TRUE

MulAdd10(limbs, d) == MulAdd10From(limbs, NumLimbs, d)

\* limbs divided by 10, most significant limb first; the result is
\* <<quotient, remainder>>.
RECURSIVE DivMod10From(_, _, _)
DivMod10From(limbs, i, rem) ==
    IF i > NumLimbs
    THEN <<limbs, rem>>
    ELSE CHOOSE t \in {DivMod10From([limbs EXCEPT ![i] = cur \div 10], i + 1, cur % 10) :
                        cur \in {rem * LimbBase + limbs[i]}} :
            TRUE

DivMod10(limbs) == DivMod10From(limbs, 1, 0)

\* u64::to_string: the decimal digits of the value, most significant first,
\* no leading zero, "0" for zero.
RECURSIVE ToDigits(_, _)
ToDigits(limbs, acc) ==
    IF limbs = Zero
    THEN acc
    ELSE CHOOSE t \in {ToDigits(qr[1], <<qr[2]>> \o acc) : qr \in {DivMod10(limbs)}} :
            TRUE

to_string(limbs) == IF limbs = Zero THEN <<0>> ELSE ToDigits(limbs, <<>>)

\* Mutant: the accumulation wraps around instead of detecting the overflow.
RECURSIVE ParseDigits_wrapping(_, _, _)
ParseDigits_wrapping(digits, i, acc) ==
    IF i > Len(digits)
    THEN <<TRUE, acc>>
    ELSE CHOOSE t \in {ParseDigits_wrapping(digits, i + 1, ma[1]) :
                        ma \in {MulAdd10(acc, digits[i])}} :
            TRUE

\* The integer token of a JSON number read into a u64: <<ok, value>>.
\* ok is FALSE when the accumulated value leaves the 64-bit range.
RECURSIVE ParseDigits(_, _, _)
ParseDigits(digits, i, acc) ==
    IF i > Len(digits)
    THEN <<TRUE, acc>>
    ELSE CHOOSE t \in {IF ma[2] # 0
                        THEN <<FALSE, Zero>>
                        ELSE ParseDigits(digits, i + 1, ma[1]) :
                        ma \in {MulAdd10(acc, digits[i])}} :
            TRUE

\* ---------------------------------------------------------------- Option

None == <<>>
Some(v) == <<v>>

\* ------------------------------------------------------------- requests

OK == 200
NOT_FOUND == 404

Reqs == 1 .. NumReq

\* Decimal texts a client puts in the price field.
D0 == <<0>>
DMax == <<1, 8, 4, 4, 6, 7, 4, 4, 0, 7, 3, 7, 0, 9, 5, 5, 1, 6, 1, 5>>
DOver == <<1, 8, 4, 4, 6, 7, 4, 4, 0, 7, 3, 7, 0, 9, 5, 5, 1, 6, 1, 6>>
DLeadingZero == <<0, 7>>

\* The texts that denote a u64.
ValidDigits == {D0, DMax}

\* A request body: form "int" is {"price": <digits>}, "nofield" is {},
\* "empty" is no body at all; an integer with a leading zero is not JSON,
\* so that body is malformed; json says whether the request's Content-Type
\* is application/json.
NoBody == [form |-> "empty", digits |-> <<>>, json |-> TRUE]
IntBody(d) == [form |-> "int", digits |-> d, json |-> TRUE]
Bodies ==
    {NoBody, [form |-> "nofield", digits |-> <<>>, json |-> TRUE]}
        \cup {IntBody(d) : d \in ValidDigits \cup {DOver, DLeadingZero}}
        \cup {[form |-> "int", digits |-> DMax, json |-> FALSE]}

Request(m, p, b) == [method |-> m, path |-> p, body |-> b]

\* The requests clients send.
Requests ==
    {Request(m, "/price", NoBody) : m \in {"GET", "HEAD", "DELETE", "POST"}}
        \cup {Request("PATCH", "/price", b) : b \in Bodies}
        \cup {Request("GET", "/other", NoBody)}

NoRequest == Request("NONE", "", NoBody)

Response(s, b) == [status |-> s, body |-> b]
NoResponse == Response(0, <<>>)

\* Mutant: a missing price field is read as the default, 0.
FromJson_default_field(b) ==
    CASE ~b.json -> <<FALSE, Zero, 415>>
      [] b.form = "empty" -> <<FALSE, Zero, 400>>
      [] b.form = "nofield" -> <<TRUE, Zero, OK>>
      [] OTHER ->
            IF Len(b.digits) = 0 \/ (Len(b.digits) > 1 /\ b.digits[1] = 0)
            THEN <<FALSE, Zero, 400>>
            ELSE LET pr == ParseDigits(b.digits, 1, Zero)
                 IN  IF pr[1] THEN <<TRUE, pr[2], OK>> ELSE <<FALSE, Zero, 422>>

\* The Json<PriceDto> extractor: <<ok, price, rejection status>>.
FromJson(b) ==
    CASE ~b.json -> <<FALSE, Zero, 415>>
      [] b.form = "empty" -> <<FALSE, Zero, 400>>
      [] b.form = "nofield" -> <<FALSE, Zero, 422>>
      [] OTHER ->
            IF Len(b.digits) = 0 \/ (Len(b.digits) > 1 /\ b.digits[1] = 0)
            THEN <<FALSE, Zero, 400>>
            ELSE LET pr == ParseDigits(b.digits, 1, Zero)
                 IN  IF pr[1] THEN <<TRUE, pr[2], OK>> ELSE <<FALSE, Zero, 422>>

\* Mutant: the router looks at the method only, not at the path.
Route_any_path(q) ==
    CASE q.method \in {"GET", "HEAD"} -> "get_price"
      [] q.method = "PATCH" -> "set_price"
      [] q.method = "DELETE" -> "set_null_price"
      [] OTHER -> "method_not_allowed"

\* The router of app(): which handler a request reaches. A get(...) route
\* also serves HEAD.
Route(q) ==
    IF q.path # "/price"
    THEN "not_found"
    ELSE CASE q.method \in {"GET", "HEAD"} -> "get_price"
           [] q.method = "PATCH" -> "set_price"
           [] q.method = "DELETE" -> "set_null_price"
           [] OTHER -> "method_not_allowed"

\* ----------------------------------------------------------------- state

VARIABLES
    price,      \* the cell: None or Some(u64)
    pc,         \* where each request slot's handler stands
    req,        \* the request each slot is serving or has served
    input,      \* set_price's local `price`: None until extracted
    resp,       \* the value the handler returned: status and body
    lock,       \* the lock: how many read guards are out, and whether the write guard is
    waiters,    \* the lock's queue of suspended acquirers, oldest first
    lastExcl,   \* history: the request that most recently got exclusive access
    prevExcl    \* history: the one that got it before lastExcl

vars == <<price, pc, req, input, resp, lock, waiters, lastExcl, prevExcl>>

HoldsShared(p, r) == p[r] \in {"hold_read", "responded"}
HoldsExclusive(p, r) == p[r] \in {"hold_write", "stored"}

NoWriter(p) == \A r \in Reqs : ~HoldsExclusive(p, r)
NoHolder(p) == \A r \in Reqs : ~HoldsExclusive(p, r) /\ ~HoldsShared(p, r)

\* Mutant: a reader only looks at the queue, not at a writer holding the lock.
CanRead_ignores_writer == waiters = <<>>

\* Mutant: a reader does not queue behind a waiting writer (a read-preferring
\* lock).
CanRead_ignores_queue == ~lock.writer

\* RwLock::read(): shared access is given at once when no writer holds the
\* lock and nobody is queued; otherwise the caller is queued.
CanRead == ~lock.writer /\ waiters = <<>>

\* Mutant: a writer waits for other writers only, not for readers.
CanWrite_ignores_readers == ~lock.writer /\ waiters = <<>>

\* RwLock::write(): exclusive access is given at once when the lock is free
\* and nobody is queued; otherwise the caller is queued.
CanWrite == ~lock.writer /\ lock.readers = 0 /\ waiters = <<>>

\* Dropping a guard hands the lock to the queue in order: every reader at the
\* head while the write guard is not out, or the writer at the head once no
\* guard is out. The result is <<lock, pc, waiters>>.
RECURSIVE Grant(_, _, _)
Grant(l, p, w) ==
    IF w = <<>>
    THEN <<l, p, w>>
    ELSE LET h == Head(w)
         IN  IF p[h] = "wait_write"
             THEN IF ~l.writer /\ l.readers = 0
                  THEN <<[l EXCEPT !.writer = TRUE],
                         [p EXCEPT ![h] = "hold_write"], Tail(w)>>
                  ELSE <<l, p, w>>
             ELSE IF ~l.writer
                  THEN Grant([l EXCEPT !.readers = @ + 1],
                             [p EXCEPT ![h] = "hold_read"], Tail(w))
                  ELSE <<l, p, w>>

\* The lock after slot r's guard is given back.
Released(r) ==
    IF HoldsExclusive(pc, r)
    THEN [lock EXCEPT !.writer = FALSE]
    ELSE [lock EXCEPT !.readers = @ - 1]

\* Mutant: the guard is given back without waking the queue.
Drop_no_wake(r) ==
    /\ lock' = Released(r)
    /\ pc' = [pc EXCEPT ![r] = "done"]
    /\ UNCHANGED <<waiters, lastExcl, prevExcl>>

\* The guard of slot r is dropped as its handler returns.
Drop(r) ==
    LET g == Grant(Released(r), [pc EXCEPT ![r] = "done"], waiters)
        woken == {h \in Reqs : pc[h] = "wait_write" /\ g[2][h] = "hold_write"}
    IN  /\ lock' = g[1]
        /\ pc' = g[2]
        /\ waiters' = g[3]
        /\ IF woken = {}
           THEN UNCHANGED <<lastExcl, prevExcl>>
           ELSE /\ lastExcl' = req[CHOOSE h \in woken : TRUE]
                /\ prevExcl' = lastExcl

\* Mutant: the cell is not locked for writing; every writer proceeds at once.
AcquireWrite_unlocked(r) ==
    /\ pc' = [pc EXCEPT ![r] = "hold_write"]
    /\ lock' = [lock EXCEPT !.writer = TRUE]
    /\ lastExcl' = req[r]
    /\ prevExcl' = lastExcl
    /\ UNCHANGED waiters

\* Slot r asks for exclusive access.
AcquireWrite(r) ==
    IF CanWrite
    THEN /\ pc' = [pc EXCEPT ![r] = "hold_write"]
         /\ lock' = [lock EXCEPT !.writer = TRUE]
         /\ lastExcl' = req[r]
         /\ prevExcl' = lastExcl
         /\ UNCHANGED waiters
    ELSE /\ pc' = [pc EXCEPT ![r] = "wait_write"]
         /\ waiters' = Append(waiters, r)
         /\ UNCHANGED <<lock, lastExcl, prevExcl>>

\* Mutant: the cell is constructed holding Some(0) instead of None.
Init_preloaded ==
    /\ price = Some(Zero)
    /\ pc = [r \in Reqs |-> "idle"]
    /\ req = [r \in Reqs |-> NoRequest]
    /\ input = [r \in Reqs |-> None]
    /\ resp = [r \in Reqs |-> NoResponse]
    /\ lock = [readers |-> 0, writer |-> FALSE]
    /\ waiters = <<>>
    /\ lastExcl = NoRequest
    /\ prevExcl = NoRequest

Init ==
    /\ price = None
    /\ pc = [r \in Reqs |-> "idle"]
    /\ req = [r \in Reqs |-> NoRequest]
    /\ input = [r \in Reqs |-> None]
    /\ resp = [r \in Reqs |-> NoResponse]
    /\ lock = [readers |-> 0, writer |-> FALSE]
    /\ waiters = <<>>
    /\ lastExcl = NoRequest
    /\ prevExcl = NoRequest

\* A client's request arrives on a free slot.
Receive(r, q) ==
    /\ pc[r] \in {"idle", "done"}
    /\ pc' = [pc EXCEPT ![r] = "start"]
    /\ req' = [req EXCEPT ![r] = q]
    /\ input' = [input EXCEPT ![r] = None]
    /\ resp' = [resp EXCEPT ![r] = NoResponse]
    /\ UNCHANGED <<price, waiters, lock, lastExcl, prevExcl>>

\* No route matches: the router answers by itself.
Fallback(r) ==
    /\ pc[r] = "start"
    /\ Route(req[r]) \in {"not_found", "method_not_allowed"}
    /\ pc' = [pc EXCEPT ![r] = "done"]
    /\ resp' = [resp EXCEPT ![r] =
            Response(IF Route(req[r]) = "not_found" THEN NOT_FOUND ELSE 405, <<>>)]
    /\ UNCHANGED <<price, req, input, waiters, lock, lastExcl, prevExcl>>

\* get_price: global_price.read().await
get_price_read(r) ==
    /\ pc[r] = "start"
    /\ Route(req[r]) = "get_price"
    /\ IF CanRead
       THEN /\ pc' = [pc EXCEPT ![r] = "hold_read"]
            /\ lock' = [lock EXCEPT !.readers = @ + 1]
            /\ UNCHANGED waiters
       ELSE /\ pc' = [pc EXCEPT ![r] = "wait_read"]
            /\ waiters' = Append(waiters, r)
            /\ UNCHANGED lock
    /\ UNCHANGED <<price, req, input, resp, lastExcl, prevExcl>>

\* Mutant: an absent price is answered as the default value 0.
get_price_result_default(r) ==
    /\ pc[r] = "hold_read"
    /\ pc' = [pc EXCEPT ![r] = "responded"]
    /\ resp' = [resp EXCEPT ![r] =
            Response(OK, to_string(IF price # None THEN price[1] ELSE Zero))]
    /\ UNCHANGED <<price, req, input, waiters, lock, lastExcl, prevExcl>>

\* Mutant: the value is taken out of the cell as it is read.
get_price_result_take(r) ==
    /\ pc[r] = "hold_read"
    /\ pc' = [pc EXCEPT ![r] = "responded"]
    /\ resp' = [resp EXCEPT ![r] =
            IF price # None
            THEN Response(OK, to_string(price[1]))
            ELSE Response(NOT_FOUND, <<>>)]
    /\ price' = None
    /\ UNCHANGED <<req, input, waiters, lock, lastExcl, prevExcl>>

\* get_price: the if let on the cell, under the read guard
get_price_result(r) ==
    /\ pc[r] = "hold_read"
    /\ pc' = [pc EXCEPT ![r] = "responded"]
    /\ resp' = [resp EXCEPT ![r] =
            IF price # None
            THEN Response(OK, to_string(price[1]))
            ELSE Response(NOT_FOUND, <<>>)]
    /\ UNCHANGED <<price, req, input, waiters, lock, lastExcl, prevExcl>>

\* Mutant: the path that returns NOT_FOUND leaves without giving the read
\* guard back.
get_price_return_leak(r) ==
    /\ pc[r] = "responded"
    /\ IF resp[r].status = NOT_FOUND
       THEN /\ pc' = [pc EXCEPT ![r] = "done"]
            /\ UNCHANGED <<lock, waiters, lastExcl, prevExcl>>
       ELSE Drop(r)
    /\ resp' = [resp EXCEPT ![r] =
            IF req[r].method = "HEAD" THEN Response(resp[r].status, <<>>) ELSE resp[r]]
    /\ UNCHANGED <<price, req, input>>

\* get_price returns: the read guard is dropped; the answer to a HEAD goes
\* out without its body
get_price_return(r) ==
    /\ pc[r] = "responded"
    /\ Drop(r)
    /\ resp' = [resp EXCEPT ![r] =
            IF req[r].method = "HEAD" THEN Response(resp[r].status, <<>>) ELSE resp[r]]
    /\ UNCHANGED <<price, req, input>>

\* set_price: the Json extractor rejects the body; the handler never runs
set_price_reject(r) ==
    /\ pc[r] = "start"
    /\ Route(req[r]) = "set_price"
    /\ ~FromJson(req[r].body)[1]
    /\ pc' = [pc EXCEPT ![r] = "done"]
    /\ resp' = [resp EXCEPT ![r] = Response(FromJson(req[r].body)[3], <<>>)]
    /\ UNCHANGED <<price, req, input, waiters, lock, lastExcl, prevExcl>>

\* set_price: let price = input.price; global_price.write().await
set_price_write(r) ==
    /\ pc[r] = "start"
    /\ Route(req[r]) = "set_price"
    /\ FromJson(req[r].body)[1]
    /\ input' = [input EXCEPT ![r] = Some(FromJson(req[r].body)[2])]
    /\ AcquireWrite(r)
    /\ UNCHANGED <<price, req, resp>>

\* Mutant: the price is narrowed to 32 bits before it is stored.
set_price_store_u32(r) ==
    /\ pc[r] = "hold_write"
    /\ Route(req[r]) = "set_price"
    /\ price' = Some([i \in 1 .. NumLimbs |->
                        IF 2 * i <= NumLimbs THEN 0 ELSE input[r][1][i]])
    /\ pc' = [pc EXCEPT ![r] = "stored"]
    /\ UNCHANGED <<req, input, resp, waiters, lock, lastExcl, prevExcl>>

\* Mutant: a price already present is kept (the first write wins).
set_price_store_if_absent(r) ==
    /\ pc[r] = "hold_write"
    /\ Route(req[r]) = "set_price"
    /\ price' = IF price = None THEN Some(input[r][1]) ELSE price
    /\ pc' = [pc EXCEPT ![r] = "stored"]
    /\ UNCHANGED <<req, input, resp, waiters, lock, lastExcl, prevExcl>>

\* set_price: *global_price = Some(price)
set_price_store(r) ==
    /\ pc[r] = "hold_write"
    /\ Route(req[r]) = "set_price"
    /\ price' = Some(input[r][1])
    /\ pc' = [pc EXCEPT ![r] = "stored"]
    /\ UNCHANGED <<req, input, resp, waiters, lock, lastExcl, prevExcl>>

\* set_price returns Ok(StatusCode::OK): the write guard is dropped
set_price_return(r) ==
    /\ pc[r] = "stored"
    /\ Route(req[r]) = "set_price"
    /\ resp' = [resp EXCEPT ![r] = Response(OK, <<>>)]
    /\ Drop(r)
    /\ UNCHANGED <<price, req, input>>

\* set_null_price: global_price.write().await
set_null_price_write(r) ==
    /\ pc[r] = "start"
    /\ Route(req[r]) = "set_null_price"
    /\ AcquireWrite(r)
    /\ UNCHANGED <<price, req, input, resp>>

\* Mutant: the assignment is missing; the handler only takes the lock.
set_null_price_store_skipped(r) ==
    /\ pc[r] = "hold_write"
    /\ Route(req[r]) = "set_null_price"
    /\ price' = price
    /\ pc' = [pc EXCEPT ![r] = "stored"]
    /\ UNCHANGED <<req, input, resp, waiters, lock, lastExcl, prevExcl>>

\* Mutant: DELETE toggles: it clears a present price and resets an absent
\* one to Some(0).
set_null_price_store_toggle(r) ==
    /\ pc[r] = "hold_write"
    /\ Route(req[r]) = "set_null_price"
    /\ price' = IF price = None THEN Some(Zero) ELSE None
    /\ pc' = [pc EXCEPT ![r] = "stored"]
    /\ UNCHANGED <<req, input, resp, waiters, lock, lastExcl, prevExcl>>

\* set_null_price: *global_price = None
set_null_price_store(r) ==
    /\ pc[r] = "hold_write"
    /\ Route(req[r]) = "set_null_price"
    /\ price' = None
    /\ pc' = [pc EXCEPT ![r] = "stored"]
    /\ UNCHANGED <<req, input, resp, waiters, lock, lastExcl, prevExcl>>

\* set_null_price returns Ok(StatusCode::OK): the write guard is dropped
set_null_price_return(r) ==
    /\ pc[r] = "stored"
    /\ Route(req[r]) = "set_null_price"
    /\ resp' = [resp EXCEPT ![r] = Response(OK, <<>>)]
    /\ Drop(r)
    /\ UNCHANGED <<price, req, input>>

\* One step of the handling of slot r's request.
Handle(r) ==
    \/ Fallback(r)
    \/ get_price_read(r)
    \/ get_price_result(r)
    \/ get_price_return(r)
    \/ set_price_reject(r)
    \/ set_price_write(r)
    \/ set_price_store(r)
    \/ set_price_return(r)
    \/ set_null_price_write(r)
    \/ set_null_price_store(r)
    \/ set_null_price_return(r)

Next ==
    \E r \in Reqs :
        \/ \E q \in Requests : Receive(r, q)
        \/ Handle(r)

Spec == Init /\ [][Next]_vars

\* The requests that take the lock when they are well-formed.
LockRequests == {Request("GET", "/price", NoBody)} \cup
    {Request("DELETE", "/price", NoBody), Request("PATCH", "/price", IntBody(D0))}

\* One step of a handler that takes the lock.
Serve(r) ==
    \/ get_price_read(r)
    \/ get_price_result(r)
    \/ get_price_return(r)
    \/ set_price_write(r)
    \/ set_price_store(r)
    \/ set_price_return(r)
    \/ set_null_price_write(r)
    \/ set_null_price_store(r)
    \/ set_null_price_return(r)

FairNext ==
    \E r \in Reqs :
        \/ \E q \in LockRequests : Receive(r, q)
        \/ Serve(r)

\* The service under the runtime's scheduling: a handler that can take a
\* step is eventually polled. Clients are free to send or not.
FairSpec ==
    /\ Init /\ [][FairNext]_vars
    /\ \A r \in Reqs : WF_vars(Serve(r))

\* The requests that write the cell.
WriteRequests ==
    {Request("DELETE", "/price", NoBody)}
        \cup {Request("PATCH", "/price", IntBody(d)) : d \in ValidDigits}

\* The same behaviours, of which only those are kept in which every handler
\* keeps running and a client keeps sending each write request. Every finite
\* behaviour of Spec extends to one of these, so what they reach again and
\* again is reachable from every reachable state of Spec.
PossibleNext ==
    \E r \in 1 .. NumLive :
        \/ \E q \in Requests : Receive(r, q)
        \/ Handle(r)

PossibleSpec ==
    /\ Init /\ [][PossibleNext]_vars
    /\ \A r \in 1 .. NumLive : WF_vars(Handle(r))
    /\ \A q \in WriteRequests : SF_vars(Receive(1, q))

\* ---------------------------------------------------------------- claims

\* What a client can see of the cell: the decimal text of the price, or the
\* empty text when the price is absent.
Visible == IF price = None THEN <<>> ELSE to_string(price[1])

\* The text a writer's request asks the cell to show: the digits of a PATCH
\* body, the empty text for a DELETE or when no writer has run.
Asked(q) == IF q.method = "PATCH" THEN q.body.digits ELSE <<>>

IsGet(r) == Route(req[r]) = "get_price" /\ req[r].method = "GET"
IsPatch(r) == Route(req[r]) = "set_price"
IsDelete(r) == Route(req[r]) = "set_null_price"

\* A GET handler that has computed its result and still holds shared
\* access: no write has happened since it read the cell.
GetAnswered(g) == IsGet(g) /\ pc[g] = "responded"

\* C1: a JSON PATCH whose body carries a u64 v answers 200, and a GET that reads
\* the cell after that PATCH got exclusive access, with no writer after it,
\* answers 200 with exactly the decimal text of v, whatever the price was
\* before.
C1_PatchThenGet ==
    /\ \A r \in Reqs :
          (pc[r] = "done" /\ IsPatch(r) /\ req[r].body.json
              /\ req[r].body.form = "int" /\ req[r].body.digits \in ValidDigits)
          => resp[r].status = OK
    /\ \A g \in Reqs :
          (GetAnswered(g) /\ lastExcl.method = "PATCH")
          => resp[g] = Response(OK, lastExcl.body.digits)

\* C1 witness: a GET answered u64::MAX after a PATCH that replaced another value.
C1_Witness ==
    \E g \in Reqs :
        /\ GetAnswered(g)
        /\ lastExcl = Request("PATCH", "/price", IntBody(DMax))
        /\ prevExcl = Request("PATCH", "/price", IntBody(D0))
        /\ resp[g] = Response(OK, DMax)
        /\ \E r \in Reqs : pc[r] = "done" /\ req[r] = lastExcl /\ resp[r].status = OK

\* C2: the price is absent until a writer has run, and a GET that reads the
\* cell while the price is absent answers 404 with an empty body.
C2_GetAbsent ==
    /\ lastExcl = NoRequest => price = None
    /\ \A g \in Reqs :
          (GetAnswered(g) /\ (price = None \/ lastExcl = NoRequest))
          => resp[g] = Response(NOT_FOUND, <<>>)

\* C2 witness: a GET answered 404 before any writer ran.
C2_Witness ==
    \E g \in Reqs :
        GetAnswered(g) /\ lastExcl = NoRequest /\ resp[g] = Response(NOT_FOUND, <<>>)

\* C3: a DELETE answers 200; once the DELETE that last got exclusive access
\* has released it the price is absent, whatever it was before, and a GET
\* reading the cell then answers 404 with an empty body.
C3_DeleteThenGet ==
    /\ \A r \in Reqs : (pc[r] = "done" /\ IsDelete(r)) => resp[r].status = OK
    /\ (NoWriter(pc) /\ lastExcl.method = "DELETE") => price = None
    /\ \A g \in Reqs :
          (GetAnswered(g) /\ lastExcl.method = "DELETE")
          => resp[g] = Response(NOT_FOUND, <<>>)

\* C3 witness: PATCH, then DELETE, then a GET answered 404.
C3_Witness ==
    \E g, r \in Reqs :
        /\ GetAnswered(g)
        /\ prevExcl = Request("PATCH", "/price", IntBody(D0))
        /\ lastExcl.method = "DELETE"
        /\ pc[r] = "done" /\ req[r] = lastExcl /\ resp[r].status = OK
        /\ resp[g] = Response(NOT_FOUND, <<>>)

\* C4: a DELETE applied to an absent price leaves it absent and answers 200,
\* so consecutive DELETEs leave the state of one, and a GET that reads the
\* absent cell answers 404.
C4_DeleteIdempotent ==
    [][\A r \in Reqs :
          /\ (IsDelete(r) /\ pc[r] = "hold_write" /\ pc'[r] = "stored" /\ price = None)
             => price' = None
          /\ (IsDelete(r) /\ pc[r] = "stored" /\ pc'[r] = "done")
             => (resp'[r] = Response(OK, <<>>) /\ price' = price)
          /\ (IsGet(r) /\ pc[r] = "hold_read" /\ pc'[r] = "responded" /\ price = None)
             => resp'[r] = Response(NOT_FOUND, <<>>)]_vars

\* C4 witness: the second of two consecutive DELETEs has written.
C4_Witness ==
    \E r \in Reqs :
        /\ IsDelete(r) /\ pc[r] = "stored"
        /\ lastExcl.method = "DELETE" /\ prevExcl.method = "DELETE"
        /\ price = None

\* C5: when a PATCH v2 got exclusive access after a PATCH v1, once v2's
\* handler has released it the cell shows v2, and a GET reading the cell
\* then answers the decimal text of v2.
C5_LastWriteWins ==
    (lastExcl.method = "PATCH" /\ prevExcl.method = "PATCH" /\ NoWriter(pc))
    => /\ Visible = lastExcl.body.digits
       /\ \A g \in Reqs : GetAnswered(g) => resp[g] = Response(OK, lastExcl.body.digits)

\* C5 witness: PATCH u64::MAX has answered, then PATCH 0 has answered, and a GET
\* reads 0.
C5_Witness ==
    \E r1, r2, g \in Reqs :
        /\ pc[r1] = "done" /\ req[r1] = prevExcl /\ resp[r1].status = OK
        /\ pc[r2] = "done" /\ req[r2] = lastExcl /\ resp[r2].status = OK
        /\ r1 # r2
        /\ prevExcl = Request("PATCH", "/price", IntBody(DMax))
        /\ lastExcl = Request("PATCH", "/price", IntBody(D0))
        /\ GetAnswered(g) /\ resp[g] = Response(OK, D0)

\* The answer a GET gives when the cell shows the text t.
AnswerFor(t) == IF t = <<>> THEN Response(NOT_FOUND, <<>>) ELSE Response(OK, t)

\* C6: while a PATCH or DELETE handler holds exclusive access no other
\* handler holds any access; shared access is held by GET handlers only;
\* and the price changes only in the store step of the handler that holds
\* exclusive access.
C6_MutualExclusion ==
    /\ [](\A w \in Reqs :
            /\ HoldsExclusive(pc, w)
               => /\ IsPatch(w) \/ IsDelete(w)
                  /\ \A o \in Reqs \ {w} :
                        ~HoldsExclusive(pc, o) /\ ~HoldsShared(pc, o)
            /\ HoldsShared(pc, w) => Route(req[w]) = "get_price")
    /\ [][price' # price
            => \E w \in Reqs : pc[w] = "hold_write" /\ pc'[w] = "stored"]_vars

\* C6 witness: two GET handlers hold shared access together while a writer
\* waits for them.
C6_Witness ==
    \E g1, g2, w \in Reqs :
        /\ g1 # g2
        /\ HoldsShared(pc, g1) /\ HoldsShared(pc, g2)
        /\ pc[w] = "wait_write"

\* C7: the result a GET computes is the whole state left by the writer that
\* last held exclusive access: 404 with an empty body after a DELETE or
\* before any writer, 200 with the decimal text of that PATCH's value
\* otherwise; and the result does not change between its computation and
\* the handler's return.
C7_GetSeesWholeState ==
    [][\A g \in Reqs :
          /\ (IsGet(g) /\ pc[g] = "hold_read" /\ pc'[g] = "responded")
             => resp'[g] = AnswerFor(Asked(lastExcl))
          /\ (IsGet(g) /\ pc[g] = "responded") => resp'[g] = resp[g]]_vars

\* C7 witness: a GET answered 0 while a PATCH of another value waits for
\* the lock.
C7_Witness ==
    \E g, w \in Reqs :
        /\ GetAnswered(g) /\ resp[g] = Response(OK, D0)
        /\ pc[w] = "wait_write"
        /\ req[w] = Request("PATCH", "/price", IntBody(DMax))

\* C8: GET handlers that hold shared access together computed the same
\* status and body, and that result is the one of the writer that last
\* released exclusive access, never an earlier one.
C8_OneValueForAllReaders ==
    /\ \A g1, g2 \in Reqs :
          (GetAnswered(g1) /\ GetAnswered(g2)) => resp[g1] = resp[g2]
    /\ \A g \in Reqs :
          (GetAnswered(g) /\ lastExcl # NoRequest)
          => resp[g] = AnswerFor(Asked(lastExcl))

\* C8 witness: two GETs hold shared access together and both answered the
\* value of the last PATCH, which replaced another value.
C8_Witness ==
    \E g1, g2 \in Reqs :
        /\ g1 # g2
        /\ GetAnswered(g1) /\ GetAnswered(g2)
        /\ resp[g1] = Response(OK, DMax)
        /\ lastExcl = Request("PATCH", "/price", IntBody(DMax))
        /\ prevExcl = Request("PATCH", "/price", IntBody(D0))

\* C9: whenever no handler holds exclusive access, the cell shows what the
\* writer that most recently got exclusive access asked for: its value for a
\* PATCH, absent for a DELETE, absent when no writer has run.
C9_LastAcquirerWins ==
    NoWriter(pc) => Visible = Asked(lastExcl)

\* C9 witness: the cell shows the value of the last PATCH to get the lock
\* while a DELETE that has arrived in the meantime still waits.
C9_Witness ==
    \E g, w \in Reqs :
        /\ HoldsShared(pc, g)
        /\ pc[w] = "wait_write" /\ IsDelete(w)
        /\ lastExcl = Request("PATCH", "/price", IntBody(D0))
        /\ prevExcl = Request("PATCH", "/price", IntBody(DMax))
        /\ Visible = D0

\* The values a u64 can take.
U64 == [1 .. NumLimbs -> 0 .. LimbBase - 1]

\* C10: the price is Absent or Present(v) with v a u64; the store step of a
\* PATCH v leaves Present(v) and the store step of a DELETE leaves Absent,
\* from either state; nothing else changes the price; PATCH and DELETE
\* handlers return 200 with an empty body; and Absent and every Present(v)
\* stay reachable: they recur in every behaviour in which the handlers keep
\* running and clients keep sending each write request.
C10_StateMachine ==
    /\ [](price = None \/ (Len(price) = 1 /\ price[1] \in U64))
    /\ [][\A r \in Reqs :
            /\ (IsPatch(r) /\ pc[r] = "hold_write" /\ pc'[r] = "stored")
               => Visible' = req[r].body.digits
            /\ (IsDelete(r) /\ pc[r] = "hold_write" /\ pc'[r] = "stored")
               => price' = None
            /\ (pc[r] = "stored" /\ pc'[r] = "done")
               => resp'[r] = Response(OK, <<>>)]_vars
    /\ [][price' # price
            => \E r \in Reqs :
                  /\ IsPatch(r) \/ IsDelete(r)
                  /\ pc[r] = "hold_write" /\ pc'[r] = "stored"]_vars
    /\ []<>(price = None)
    /\ \A d \in ValidDigits : []<>(Visible = d)

\* C10 witness: a PATCH of u64::MAX has just written over the Absent left
\* by a DELETE, while another writer waits.
C10_Witness ==
    \E r, w \in Reqs :
        /\ IsPatch(r) /\ pc[r] = "stored"
        /\ Visible = DMax
        /\ prevExcl.method = "DELETE"
        /\ pc[w] = "wait_write"

\* A PATCH body that is not a JSON object whose price field is a u64.
BadBody(b) == ~b.json \/ b.form # "int" \/ b.digits \notin ValidDigits

\* C11: a PATCH whose body is absent, malformed, without the price field or
\* with a price outside the u64 range never gets past the extractor: its
\* slot never waits for or holds the lock and never has an input, the step
\* that answers it leaves the price, the lock and its queue as they were,
\* and the answer is a 4xx.
C11_BadPatchRejected ==
    /\ [](\A r \in Reqs :
            (Route(req[r]) = "set_price" /\ BadBody(req[r].body))
            => /\ pc[r] \in {"start", "done"}
               /\ input[r] = None
               /\ pc[r] = "done" => resp[r].status \in 400 .. 499)
    /\ [][\A r \in Reqs :
            (Route(req[r]) = "set_price" /\ BadBody(req[r].body)
                /\ pc[r] = "start" /\ pc'[r] # "start")
            => (price' = price /\ lock' = lock /\ waiters' = waiters)]_vars

\* C11 witness: each kind of bad PATCH has been answered with a 4xx while
\* the price set before is still there.
C11_Witness ==
    /\ Visible = DMax
    /\ \E r1, r2, r3 \in Reqs :
          /\ pc[r1] = "done" /\ pc[r2] = "done" /\ pc[r3] = "done"
          /\ req[r1] = Request("PATCH", "/price", IntBody(DOver))
          /\ req[r2] = Request("PATCH", "/price", IntBody(DLeadingZero))
          /\ req[r3].method = "PATCH" /\ req[r3].body.form \in {"empty", "nofield"}
          /\ \A r \in {r1, r2, r3} : resp[r].status \in 400 .. 499

\* A request the claim calls unmatched: not GET, PATCH or DELETE, or not
\* on /price.
Unmatched(q) == q.method \notin {"GET", "PATCH", "DELETE"} \/ q.path # "/price"

\* A request no handler serves: not on /price, or a method other than GET,
\* HEAD, PATCH and DELETE.
NotServed(q) == q.path # "/price" \/ q.method \notin {"GET", "HEAD", "PATCH", "DELETE"}

\* C12 as stated: every unmatched request stays out of the handlers and is
\* answered 404. (Refuted: a HEAD /price takes shared access in get_price,
\* and a POST /price is answered 405.)
C12_Original ==
    \A r \in Reqs :
        (req[r] # NoRequest /\ Unmatched(req[r]))
        => /\ pc[r] \in {"start", "done"}
           /\ pc[r] = "done" => resp[r].status = NOT_FOUND

\* C12 amended: a request that is not on /price is answered 404 and a
\* request on /price with a method other than GET, HEAD, PATCH and DELETE is
\* answered 405; neither reaches a handler, waits for or holds the lock, or
\* changes the price, the lock or its queue. A HEAD /price is served by
\* get_price like a GET, and answered with the same status and no body.
C12_Unrouted ==
    /\ [](\A r \in Reqs :
            /\ (req[r] # NoRequest /\ NotServed(req[r]))
               => /\ pc[r] \in {"start", "done"}
                  /\ pc[r] = "done"
                     => resp[r] = Response(IF req[r].path # "/price"
                                           THEN NOT_FOUND ELSE 405, <<>>)
            /\ (req[r].method = "HEAD" /\ req[r].path = "/price")
               => /\ pc[r] = "responded" => resp[r] = AnswerFor(Asked(lastExcl))
                  /\ pc[r] = "done"
                     => (resp[r].status \in {OK, NOT_FOUND} /\ resp[r].body = <<>>))
    /\ [][\A r \in Reqs :
            (NotServed(req[r]) /\ pc[r] = "start" /\ pc'[r] # "start")
            => (price' = price /\ lock' = lock /\ waiters' = waiters)]_vars

\* C12 witness: a POST /price answered 405 and a GET /other answered 404,
\* while a HEAD /price holds shared access with the result 200.
C12_Witness ==
    \E r1, r2, r3 \in Reqs :
        /\ pc[r1] = "done" /\ req[r1] = Request("POST", "/price", NoBody)
        /\ resp[r1].status = 405
        /\ pc[r2] = "done" /\ req[r2] = Request("GET", "/other", NoBody)
        /\ resp[r2].status = NOT_FOUND
        /\ pc[r3] = "responded" /\ req[r3].method = "HEAD"
        /\ resp[r3] = Response(OK, DMax)

\* C13: a PATCH or DELETE handler waiting for exclusive access eventually
\* gets it, whatever GETs arrive while it waits, when every handler that can
\* run is eventually run (so every holder releases).
C13_NoWriterStarvation ==
    \A r \in Reqs : (pc[r] = "wait_write") ~> HoldsExclusive(pc, r)

\* C13 witness: a writer waits for a reader, and a GET that arrived after
\* the writer is queued behind it.
C13_Witness ==
    \E g1, w, g2 \in Reqs :
        /\ HoldsShared(pc, g1)
        /\ pc[w] = "wait_write"
        /\ pc[g2] = "wait_read"
        /\ waiters = <<w, g2>>

\* A handler that is running: it has started and is not suspended on the
\* lock.
Running(r) == pc[r] \in {"start", "hold_read", "responded", "hold_write", "stored"}
Waiting(r) == pc[r] \in {"wait_read", "wait_write"}

\* C14: every request that starts is eventually answered when every handler
\* that can run is eventually run; and no state is a deadlock: a running
\* handler can always take its next step (it waits for nothing but its one
\* acquisition of the lock), and a suspended one waits for a guard that a
\* running handler holds.
C14_EveryRequestTerminates ==
    /\ \A r \in Reqs : (pc[r] = "start") ~> (pc[r] = "done")
    /\ [](\A r \in Reqs :
            /\ Running(r) => ENABLED Serve(r)
            /\ Waiting(r)
               => \E h \in Reqs :
                     /\ HoldsShared(pc, h) \/ HoldsExclusive(pc, h)
                     /\ ENABLED Serve(h))

\* C14 witness: three requests in flight, one holding exclusive access and a
\* writer and a reader suspended behind it.
C14_Witness ==
    \E h, w, g \in Reqs :
        /\ HoldsExclusive(pc, h)
        /\ pc[w] = "wait_write"
        /\ pc[g] = "wait_read"

\* No request is in flight.
Quiescent == \A r \in Reqs : pc[r] \in {"idle", "done"}

\* C15: the guards that are out are exactly those of the handlers between
\* their acquisition and their return, so a request that has been answered
\* holds nothing, after a 404 as after a 200; and when no request is in
\* flight the lock is free with an empty queue, so that the next read() or
\* write() succeeds at once.
C15_GuardsReleased ==
    /\ lock.readers = Cardinality({r \in Reqs : HoldsShared(pc, r)})
    /\ lock.writer = (\E r \in Reqs : HoldsExclusive(pc, r))
    /\ \A i \in 1 .. Len(waiters) : Waiting(waiters[i])
    /\ Quiescent
       => /\ lock = [readers |-> 0, writer |-> FALSE]
          /\ waiters = <<>>
          /\ CanRead /\ CanWrite

\* C15 witness: nothing is in flight after a GET answered 404, a GET
\* answered 200 and a PATCH.
C15_Witness ==
    /\ Quiescent
    /\ \E g1, g2, w \in Reqs :
          /\ IsGet(g1) /\ pc[g1] = "done" /\ resp[g1].status = NOT_FOUND
          /\ IsGet(g2) /\ pc[g2] = "done" /\ resp[g2].status = OK
          /\ IsPatch(w) /\ pc[w] = "done" /\ resp[w].status = OK

\* C16: no step of a GET, from its arrival to its return, changes the price,
\* whether it answers 200 or 404; the result it computes is the one the
\* price stands for, before and after the step, and equals the result of
\* every GET that computed its own since the last write (those still holding
\* shared access).
C16_GetLeavesPrice ==
    [][\A g \in Reqs :
          (IsGet(g) /\ pc[g] \in {"start", "hold_read", "responded"} /\ pc'[g] # pc[g])
          => /\ price' = price
             /\ pc'[g] = "responded"
                => /\ resp'[g] = AnswerFor(Visible)
                   /\ resp'[g] = AnswerFor(Visible')
                   /\ \A h \in Reqs : GetAnswered(h) => resp'[g] = resp[h]]_vars

\* C16 witness: after a GET answered 200 and returned, a second GET computed
\* the same answer and the price is still there.
C16_Witness ==
    \E g1, g2 \in Reqs :
        /\ IsGet(g1) /\ pc[g1] = "done" /\ resp[g1] = Response(OK, DMax)
        /\ GetAnswered(g2) /\ resp[g2] = Response(OK, DMax)
        /\ Visible = DMax

====
